---- MODULE Spec2Model ----
(***************************************************************************)
(* A model of agentforge/agent/agent.py: the Agent base class, its prompt  *)
(* assembly, its task-order bookkeeping and its persistence routines.      *)
(*                                                                         *)
(* Python values are tagged records, so that values of different Python    *)
(* types can be compared.  A dict is a function from its keys (strings).   *)
(* Every public method is one action; the collaborators (storage, LLM) are *)
(* called through Call, which lets any one collaborator call of a method   *)
(* raise.  The storage backend and the LLM are not part of agent.py: the   *)
(* backend is modelled from its documented contract.                       *)
(***************************************************************************)
EXTENDS Integers, Sequences, FiniteSets, TLC

VARIABLES
    persona,        \* what config.persona() gave for this agent at construction
    agent_data,     \* self.agent_data
    storage,        \* the storage backend: collection name -> sequence of records
    uuid_count,     \* how many uuid4 values have been generated so far
    op,             \* the last method called on the agent ("" after construction)
    args,           \* its argument (kwargs, or parsed_data)
    err,            \* the exception it raised ("" when it returned)
    ret,            \* what it returned
    log,            \* the collaborator calls it made, in order
    stages,         \* run only: the stages of the pipeline that were started
    dropped,        \* history: the prompt types dropped so far for a null argument
    before          \* history: the storage as it was when the last method was called

vars == <<persona, agent_data, storage, uuid_count, op, args, err, ret, log,
          stages, dropped, before>>

----------------------------------------------------------------------------
(* Bounds of the model *)

MaxResults == 2     \* entries of "Results" after which no further result is saved
MaxUuid == 4        \* uuid4 values generated, after which save_tasks is not called
MaxDigits == 1      \* decimal digits of the integers that are converted to text

----------------------------------------------------------------------------
(* Python values *)

None == [t |-> "None"]
Str(s) == [t |-> "str", s |-> s]
Num(n) == [t |-> "int", i |-> n]
Dict(m) == [t |-> "dict", m |-> m]
List(l) == [t |-> "list", l |-> l]
Obj(o) == [t |-> "object", o |-> o]
Absent == [t |-> "absent"]      \* not a Python value: the key is not given

EmptyDict == <<>>
Range(s) == {s[i] : i \in DOMAIN s}

\* dict.get(key) with the default None
Get(d, k) == IF k \in DOMAIN d THEN d[k] ELSE None

\* dict.update(e): the entries of e win
Update(d, e) == [k \in DOMAIN d \cup DOMAIN e |-> IF k \in DOMAIN e THEN e[k] ELSE d[k]]

\* dict.pop(key)
Pop(d, k) == [x \in DOMAIN d \ {k} |-> d[x]]

\* the truth value of a Python value
Truthy(v) ==
    CASE v.t = "None" -> FALSE
      [] v.t = "str" -> v.s # ""
      [] v.t = "int" -> v.i # 0
      [] v.t = "dict" -> DOMAIN v.m # {}
      [] v.t = "list" -> Len(v.l) > 0
      [] OTHER -> TRUE

Digit == <<"0", "1", "2", "3", "4", "5", "6", "7", "8", "9">>

\* str(n) of an integer: its decimal digits, most significant first
RECURSIVE NatToStr(_)
NatToStr(n) == IF n < 10 THEN Digit[n + 1] ELSE NatToStr(n \div 10) \o Digit[(n % 10) + 1]

IntToStr(n) == IF n < 0 THEN "-" \o NatToStr(0 - n) ELSE NatToStr(n)

RECURSIVE Pow10(_)
Pow10(k) == IF k = 0 THEN 1 ELSE 10 * Pow10(k - 1)

\* int(s) of a string: the integer it spells, or a ValueError
StrToInt(s) ==
    LET N == Pow10(MaxDigits) - 1
        hit == {n \in (0 - N)..N : IntToStr(n) = s}
    IN  IF hit = {} THEN [err |-> "ValueError", val |-> 0]
        ELSE [err |-> "", val |-> CHOOSE n \in hit : TRUE]

\* int(v)
PyInt(v) ==
    CASE v.t = "int" -> [err |-> "", val |-> v.i]
      [] v.t = "str" -> StrToInt(v.s)
      [] OTHER -> [err |-> "TypeError", val |-> 0]

\* repr(v) and str(v); a dict is shown entry by entry
RECURSIVE PyRepr(_), ItemsRepr(_, _)
PyRepr(v) ==
    CASE v.t = "None" -> "None"
      [] v.t = "str" -> "'" \o v.s \o "'"
      [] v.t = "int" -> IntToStr(v.i)
      [] v.t = "dict" -> "{" \o ItemsRepr(v.m, DOMAIN v.m) \o "}"
      [] OTHER -> "<object>"
ItemsRepr(m, keys) ==
    IF keys = {} THEN ""
    ELSE LET k == CHOOSE x \in keys : TRUE
             rest == keys \ {k}
         IN  "'" \o k \o "': " \o PyRepr(m[k])
                 \o (IF rest = {} THEN "" ELSE ", " \o ItemsRepr(m, rest))

PyStr(v) == IF v.t = "str" THEN v.s ELSE PyRepr(v)

----------------------------------------------------------------------------
(* Templates: a template is a sequence of literal pieces and {name} fields *)

Lit(s) == [lit |-> s]
Field(n) == [field |-> n]
IsField(tok) == "field" \in DOMAIN tok

Fields(template) == {template[i].field : i \in {j \in DOMAIN template : IsField(template[j])}}

\* template.format(**kw): KeyError for a field that kw does not have
RECURSIVE FormatFrom(_, _, _)
FormatFrom(template, i, kw) ==
    IF i > Len(template) THEN ""
    ELSE (IF IsField(template[i]) THEN PyStr(kw[template[i].field]) ELSE template[i].lit)
             \o FormatFrom(template, i + 1, kw)

Format(template, kw) ==
    IF Fields(template) \subseteq DOMAIN kw
    THEN [err |-> "", val |-> FormatFrom(template, 1, kw)]
    ELSE [err |-> "KeyError", val |-> ""]

\* Mutant: the template is formatted over the whole of data, vars ignored
render_template_unfiltered(template, variables, data) == Format(template, data)

render_template(template, variables, data) ==
    Format(template, [k \in {x \in DOMAIN data : x \in Range(variables)} |-> data[k]])

----------------------------------------------------------------------------
(* The storage backend (StorageInterface().storage_utils) and the LLM.      *)
(* A collection is a sequence of records, in the order they were saved.     *)

\* save_memory(params): one new record per entry of params.data
save_memory(st, params) ==
    LET n == Len(params.data)
        rec(i) == IF "ids" \in DOMAIN params
                  THEN [id |-> params.ids[i], doc |-> params.data[i],
                        meta |-> params.metadata[i]]
                  ELSE [doc |-> params.data[i]]
    IN  [st EXCEPT ![params.collection_name] = @ \o [i \in 1..n |-> rec(i)]]

\* clear_collection(name): the collection holds nothing afterwards
clear_collection(st, collection_name) == [st EXCEPT ![collection_name] = <<>>]

\* update_memory(params): upsert by id
update_memory(st, params) ==
    LET c == st[params.collection_name]
        new == [id |-> params.ids[1], doc |-> params.data[1], meta |-> params.metadata[1]]
        at == {i \in DOMAIN c : c[i].id = new.id}
    IN  [st EXCEPT ![params.collection_name] =
            IF at = {} THEN Append(c, new)
            ELSE [i \in DOMAIN c |-> IF i \in at THEN new ELSE c[i]]]

\* load_collection(params): the documents, and the metadata, of the collection
load_collection(st, params) ==
    LET c == st[params.collection_name]
    IN  [documents |-> [i \in DOMAIN c |-> c[i].doc],
         metadatas |-> [i \in DOMAIN c |-> IF "meta" \in DOMAIN c[i] THEN c[i].meta ELSE <<>>]]

\* The n-th value uuid4 generates: no two of them are equal
uuid4(n) == n

\* One collaborator call.  m is the world the handler runs in: the storage, the
\* uuid4 values used and the calls made so far.  The failAt-th collaborator call
\* of a handler raises and has no effect; a call that returns leaves storage st2.
Call(m, failAt, entry, st2) ==
    IF Len(m.log) + 1 = failAt
    THEN [m |-> [m EXCEPT !.log = Append(@, entry @@ [raised |-> TRUE])],
          err |-> "CollaboratorError"]
    ELSE [m |-> [m EXCEPT !.log = Append(@, entry @@ [raised |-> FALSE]), !.storage = st2],
          err |-> ""]

----------------------------------------------------------------------------
(* Module-level helpers of agent.py *)

\* Mutant: the order is converted but not advanced
calculate_same_task_order(this_task_order) ==
    LET n == PyInt(this_task_order)
    IN  IF n.err # "" THEN [err |-> n.err, val |-> None]
        ELSE [err |-> "", val |-> Num(n.val)]

calculate_next_task_order(this_task_order) ==
    LET n == PyInt(this_task_order)
    IN  IF n.err # "" THEN [err |-> n.err, val |-> None]
        ELSE [err |-> "", val |-> Num(n.val + 1)]

\* prompts.get(prompt_type, {}): the template and the vars when it is defined
handle_prompt_type(prompts, prompt_type) ==
    LET prompt_data == IF prompt_type \in DOMAIN prompts THEN prompts[prompt_type] ELSE EmptyDict
    IN  IF DOMAIN prompt_data # {}
        THEN << <<prompt_data.template, prompt_data.vars>> >>
        ELSE <<>>

\* Mutant: only a missing keyword argument removes the prompt, a None one does not
removes_prompt_if_missing(prompts, kwargs, prompt_type, kwarg_key) ==
    /\ prompt_type \in DOMAIN prompts
    /\ DOMAIN prompts[prompt_type] # {}
    /\ kwarg_key \notin DOMAIN kwargs

\* Whether remove_prompt_if_none pops prompt_type
removes_prompt(prompts, kwargs, prompt_type, kwarg_key) ==
    /\ prompt_type \in DOMAIN prompts
    /\ DOMAIN prompts[prompt_type] # {}
    /\ Get(kwargs, kwarg_key) = None

\* Mutant: the prompt is never popped
remove_prompt_never(prompts, kwargs, prompt_type, kwarg_key) == prompts

remove_prompt_if_none(prompts, kwargs, prompt_type, kwarg_key) ==
    IF removes_prompt(prompts, kwargs, prompt_type, kwarg_key)
    THEN Pop(prompts, prompt_type)
    ELSE prompts

set_task_order(data) ==
    LET task_order == Get(data, "this_task_order")
    IN  IF task_order # None
        THEN LET n == calculate_next_task_order(task_order)
             IN  IF n.err # "" THEN [err |-> n.err, val |-> data]
                 ELSE [err |-> "", val |-> Update(data, "next_task_order" :> n.val)]
        ELSE [err |-> "", val |-> data]

\* config.persona() for one agent, and what _load_agent_data makes of it
load_agent_data(persona_data, agent_name) ==
    LET agent == persona_data[agent_name]
        defaults == persona_data["Defaults"]
        api == IF "API" \in DOMAIN agent THEN agent["API"] ELSE defaults["API"]
        params == IF "Params" \in DOMAIN agent THEN agent["Params"] ELSE defaults["Params"]
        base == [name |-> Str(agent_name),
                 llm |-> Obj(api),
                 objective |-> Str(persona_data["Objective"]),
                 prompts |-> Dict(agent["Prompts"]),
                 params |-> Dict(params),
                 storage |-> Obj("storage")]
    IN  IF "HeuristicImperatives" \in DOMAIN persona_data
        THEN Update(base, "heuristic_imperatives" :> Str(persona_data["HeuristicImperatives"]))
        ELSE base

----------------------------------------------------------------------------
(* The methods of Agent.  A method that calls collaborators takes the world *)
(* m and the number failAt of the collaborator call that raises, and gives  *)
(* [m, err, val]: the world afterwards, the exception raised ("" for none)  *)
(* and the value returned.                                                  *)

\* A statement sequence: v is bound to the value of e, then F(v) is computed
Bind(e, F(_)) == CHOOSE r \in {F(v) : v \in {e}} : TRUE

\* Mutant: no copy is made, the name refers to the dict itself
dict_alias(d) == [shared |-> TRUE, d |-> d]

\* d.copy(): a new dict with the entries of d; popping from it leaves d alone
dict_copy(d) == [shared |-> FALSE, d |-> d]

\* The prompts dict of generate_prompt after the two remove_prompt_if_none calls
remaining_prompts(prompts, kwargs) ==
    remove_prompt_if_none(
        remove_prompt_if_none(prompts, kwargs, "ContextPrompt", "context"),
        kwargs, "FeedbackPrompt", "feedback")

generate_prompt(ad, kwargs) ==
    Bind(dict_copy(ad["prompts"].m), LAMBDA local :
    Bind(remaining_prompts(local.d, kwargs), LAMBDA prompts :
    Bind(<< <<local.d["SystemPrompt"].template, local.d["SystemPrompt"].vars>> >>
             \o handle_prompt_type(prompts, "ContextPrompt")
             \o handle_prompt_type(prompts, "FeedbackPrompt")
             \o handle_prompt_type(prompts, "InstructionPrompt"), LAMBDA templates :
    Bind([i \in DOMAIN templates |->
             render_template(templates[i][1], templates[i][2], kwargs)], LAMBDA rendered :
        LET failed == {i \in DOMAIN rendered : rendered[i].err # ""}
        IN  [err |-> IF failed = {} THEN "" ELSE "KeyError",
             val |-> IF failed = {} THEN List([i \in DOMAIN rendered |-> rendered[i].val])
                     ELSE None,
             agent_data |-> IF local.shared THEN [ad EXCEPT !["prompts"] = Dict(prompts)]
                            ELSE ad,
             dropped |-> DOMAIN local.d \ DOMAIN prompts]))))

get_task_list(m, failAt) ==
    LET params == [collection_name |-> "Tasks", include |-> <<"documents", "metadatas">>]
    IN  Bind(Call(m, failAt, [fn |-> "load_collection", params |-> params], m.storage),
             LAMBDA c : [m |-> c.m, err |-> c.err, val |-> load_collection(m.storage, params)])

\* Mutant: an empty collection gives the task None instead of an IndexError
load_current_task_or_none(m, failAt) ==
    Bind(get_task_list(m, failAt), LAMBDA task_list :
        IF task_list.err # "" THEN [m |-> task_list.m, err |-> task_list.err, val |-> None]
        ELSE IF Len(task_list.val.documents) = 0
        THEN [m |-> task_list.m, err |-> "", val |-> Dict("task" :> None)]
        ELSE [m |-> task_list.m, err |-> "",
              val |-> Dict("task" :> Str(task_list.val.documents[1]))])

load_current_task(m, failAt) ==
    Bind(get_task_list(m, failAt), LAMBDA task_list :
        IF task_list.err # "" THEN [m |-> task_list.m, err |-> task_list.err, val |-> None]
        ELSE IF Len(task_list.val.documents) = 0
        THEN [m |-> task_list.m, err |-> "IndexError", val |-> None]
        ELSE [m |-> task_list.m, err |-> "",
              val |-> Dict("task" :> Str(task_list.val.documents[1]))])

\* Whether _get_data calls its loader
get_data_loads(key, kwargs, invert_logic) ==
    \/ (key \notin DOMAIN kwargs) /\ ~invert_logic
    \/ (key \in DOMAIN kwargs) /\ invert_logic

\* _get_data, given what the loader returns (db_data)
get_data(key, db_data, kwargs, data, invert_logic) ==
    IF get_data_loads(key, kwargs, invert_logic) /\ db_data # None
    THEN Update(data, db_data.m)
    ELSE data

\* (kwargs.get(key) or {}).get('result', None)
result_of(kwargs, key) ==
    LET given == Get(kwargs, key)
        mapping == IF Truthy(given) THEN given ELSE Dict(EmptyDict)
    IN  IF mapping.t # "dict" THEN [err |-> "AttributeError", val |-> None]
        ELSE [err |-> "", val |-> Get(mapping.m, "result")]

load_and_process_data(ad, m, failAt, kwargs) ==
    Bind(result_of(kwargs, "context"), LAMBDA context :
    Bind(result_of(kwargs, "task_result"), LAMBDA task_result :
        IF context.err # "" THEN [m |-> m, err |-> context.err, val |-> None]
        ELSE IF task_result.err # "" THEN [m |-> m, err |-> task_result.err, val |-> None]
        ELSE
    Bind(IF get_data_loads("task", kwargs, FALSE) THEN load_current_task(m, failAt)
         ELSE [m |-> m, err |-> "", val |-> None], LAMBDA loaded :
        IF loaded.err # "" THEN [m |-> loaded.m, err |-> loaded.err, val |-> None]
        ELSE
    Bind(get_data("task", loaded.val, kwargs, Update(ad, kwargs), FALSE), LAMBDA data1 :
    Bind(get_data("task_result", Dict("result" :> task_result.val), kwargs, data1, TRUE),
         LAMBDA data2 :
    Bind(set_task_order(Update(data2, "context" :> context.val)), LAMBDA ordered :
        IF ordered.err # "" THEN [m |-> loaded.m, err |-> ordered.err, val |-> None]
        ELSE [m |-> loaded.m, err |-> "", val |-> Dict(ordered.val)]))))))

parse_output(result, bot_id, data) == "result" :> result

IsSpace(c) == c \in {" ", "\n", "\t"}

\* str.strip() of a text given character by character
RECURSIVE lstrip(_), rstrip(_), Join(_)
lstrip(cs) == IF cs # <<>> /\ IsSpace(Head(cs)) THEN lstrip(Tail(cs)) ELSE cs
rstrip(cs) == IF cs # <<>> /\ IsSpace(cs[Len(cs)]) THEN rstrip(SubSeq(cs, 1, Len(cs) - 1)) ELSE cs
Join(cs) == IF cs = <<>> THEN "" ELSE Head(cs) \o Join(Tail(cs))
strip(cs) == Join(rstrip(lstrip(cs)))

\* run_llm; text is what model.generate_text returns, character by character
run_llm(ad, m, failAt, prompt, text) ==
    LET params == IF "params" \in DOMAIN ad THEN ad["params"] ELSE Dict(EmptyDict)
    IN  Bind(Call(m, failAt, [fn |-> "generate_text", returned |-> text,
                              params |-> [prompt |-> prompt, params |-> params]],
                  m.storage),
             LAMBDA c : [m |-> c.m, err |-> c.err, val |-> IF c.err = "" THEN strip(text) ELSE ""])

\* Mutant: the result is saved as two entries
save_results_twice(m, failAt, result) ==
    LET params == [data |-> <<result, result>>, collection_name |-> "Results"]
    IN  Call(m, failAt, [fn |-> "save_memory", params |-> params], save_memory(m.storage, params))

save_results(m, failAt, result) ==
    LET params == [data |-> <<result>>, collection_name |-> "Results"]
    IN  Call(m, failAt, [fn |-> "save_memory", params |-> params], save_memory(m.storage, params))

save_status(m, failAt, status, task_id, text, task_order) ==
    LET params == [collection_name |-> "Tasks",
                   ids |-> <<task_id>>,
                   data |-> <<text>>,
                   metadata |-> << [Status |-> status, Description |-> text, Order |-> task_order] >>]
    IN  Call(m, failAt, [fn |-> "update_memory", params |-> params], update_memory(m.storage, params))

\* The params save_tasks builds, used uuid4 values having been generated before
task_params(used, ordered_results, task_desc_list) ==
    LET metadatas == [i \in DOMAIN ordered_results |->
                        [Status |-> "not completed",
                         Description |-> ordered_results[i].Description,
                         List_ID |-> uuid4(used + i),
                         Order |-> ordered_results[i].Order]]
        task_orders == [i \in DOMAIN ordered_results |-> ordered_results[i].Order]
    IN  [collection_name |-> "Tasks",
         ids |-> [i \in DOMAIN task_orders |-> PyStr(Num(task_orders[i]))],
         data |-> task_desc_list,
         metadata |-> metadatas]

\* The save_memory call of save_tasks in the world m
save_task_records(m, failAt, ordered_results, task_desc_list) ==
    Bind(task_params(m.uuid_count, ordered_results, task_desc_list), LAMBDA params :
        Call([m EXCEPT !.uuid_count = @ + Len(ordered_results)], failAt,
             [fn |-> "save_memory", params |-> params], save_memory(m.storage, params)))

\* The clear_collection call of save_tasks in the world m
clear_tasks(m, failAt) ==
    Call(m, failAt, [fn |-> "clear_collection", params |-> [collection_name |-> "Tasks"]],
         clear_collection(m.storage, "Tasks"))

\* Mutant: the collection is not cleared before the save
save_tasks_no_clear(m, failAt, ordered_results, task_desc_list) ==
    save_task_records(m, failAt, ordered_results, task_desc_list)

\* Mutant: a failed save puts back the records the clear removed
save_tasks_rollback(m, failAt, ordered_results, task_desc_list) ==
    Bind(clear_tasks(m, failAt), LAMBDA cleared :
        IF cleared.err # "" THEN cleared
        ELSE Bind(save_task_records(cleared.m, failAt, ordered_results, task_desc_list),
                  LAMBDA saved :
                      IF saved.err # "" THEN [saved EXCEPT !.m.storage = m.storage]
                      ELSE saved))

save_tasks(m, failAt, ordered_results, task_desc_list) ==
    Bind(clear_tasks(m, failAt), LAMBDA cleared :
        IF cleared.err # "" THEN cleared
        ELSE save_task_records(cleared.m, failAt, ordered_results, task_desc_list))

\* Mutant: the "Tasks" entry is listed first
save_operation_keys_tasks_first == <<"Tasks", "result", "status">>

\* The keys of save_operations, in the order the dict lists them
save_operation_keys == <<"result", "Tasks", "status">>

\* save_function(parsed_data[key]) of save_operations[key]
save_function(key, m, failAt, parsed_data) ==
    CASE key = "result" -> save_results(m, failAt, parsed_data["result"])
      [] key = "Tasks" ->
            save_tasks(m, failAt, parsed_data["Tasks"],
                       [i \in DOMAIN parsed_data["Tasks"] |-> parsed_data["Tasks"][i].Description])
      [] key = "status" ->
            IF "task" \notin DOMAIN parsed_data THEN [m |-> m, err |-> "KeyError"]
            ELSE save_status(m, failAt, parsed_data["status"], parsed_data["task"].task_id,
                             parsed_data["task"].description, parsed_data["task"].order)

\* data_selector(parsed_data) of save_operations[key]
data_selector(key, parsed_data) ==
    IF key = "Tasks" THEN List(parsed_data["Tasks"]) ELSE Dict(parsed_data)

\* The loop of save_parsed_data from the i-th key on
RECURSIVE save_from(_, _, _, _, _)
save_from(i, m, failAt, parsed_data, output) ==
    IF i > Len(save_operation_keys) THEN [m |-> m, err |-> "", val |-> output]
    ELSE IF save_operation_keys[i] \in DOMAIN parsed_data
    THEN Bind(save_function(save_operation_keys[i], m, failAt, parsed_data), LAMBDA saved :
             IF saved.err # "" THEN [m |-> saved.m, err |-> saved.err, val |-> None]
             ELSE save_from(i + 1, saved.m, failAt, parsed_data,
                            data_selector(save_operation_keys[i], parsed_data)))
    ELSE save_from(i + 1, m, failAt, parsed_data, output)

save_parsed_data(m, failAt, parsed_data) == save_from(1, m, failAt, parsed_data, None)

\* The outcome of run: the world, the exception, the output, the stages started
Outcome(m, e, val, stages_started, prompts) ==
    [m |-> m, err |-> e, val |-> val, stages |-> stages_started,
     agent_data |-> prompts.agent_data, dropped |-> prompts.dropped]

\* run(**kwargs) with the LLM answering text
run(ad, m, failAt, kwargs, text) ==
    Bind(load_and_process_data(ad, m, failAt, kwargs), LAMBDA data :
        IF data.err # ""
        THEN Outcome(data.m, data.err, None, <<"load_and_process_data">>,
                     [agent_data |-> ad, dropped |-> {}])
        ELSE
    Bind(generate_prompt(ad, data.val.m), LAMBDA prompts :
        IF prompts.err # ""
        THEN Outcome(data.m, prompts.err, None,
                     <<"load_and_process_data", "generate_prompt">>, prompts)
        ELSE
    Bind(run_llm(prompts.agent_data, data.m, failAt, prompts.val, text), LAMBDA result :
        IF result.err # ""
        THEN Outcome(result.m, result.err, None,
                     <<"load_and_process_data", "generate_prompt", "run_llm">>, prompts)
        ELSE
    Bind(parse_output(result.val, None, data.val), LAMBDA parsed_data :
    Bind(save_parsed_data(result.m, failAt, parsed_data), LAMBDA output :
        Outcome(output.m, output.err, output.val,
                <<"load_and_process_data", "generate_prompt", "run_llm", "parse_output",
                  "save_parsed_data">>, prompts))))))

----------------------------------------------------------------------------
(* The inputs: personas, keyword arguments, LLM answers, parsed data *)

\* One optional entry of a dict
Opt(k, v) == IF v = Absent THEN EmptyDict ELSE k :> v

\* The same for a value given as the set of at most one element
Maybe(k, S) == IF S = {} THEN EmptyDict ELSE k :> (CHOOSE v \in S : TRUE)

SystemPrompt == [template |-> <<Lit("SYS "), Field("objective")>>, vars |-> <<"objective">>]
ContextPrompt == [template |-> <<Lit("CTX "), Field("context")>>, vars |-> <<"context">>]
FeedbackPrompt == [template |-> <<Lit("FB "), Field("feedback")>>, vars |-> <<"feedback">>]
InstructionPrompt == [template |-> <<Lit("INS "), Field("task")>>, vars |-> <<"task">>]
\* a prompt that declares variables its template does not use
InstructionUnused == [template |-> <<Lit("INS")>>, vars |-> <<"task", "notes">>]
\* a prompt whose template uses a variable it does not declare
InstructionUndeclared == [template |-> <<Lit("INS "), Field("task")>>, vars |-> <<>>]

PromptsOf(c, f, i) ==
    ("SystemPrompt" :> SystemPrompt) @@ Opt("ContextPrompt", c) @@ Opt("FeedbackPrompt", f)
        @@ Opt("InstructionPrompt", i)

AgentName == "Agent"

PersonaOf(prompts, imperatives) ==
    ("Objective" :> "Build") @@ ("Defaults" :> [API |-> "api", Params |-> EmptyDict])
        @@ (AgentName :> [Prompts |-> prompts]) @@ Maybe("HeuristicImperatives", imperatives)

\* The personas of the prompt specification: every combination of optional prompts
AllPersonas ==
    {PersonaOf(PromptsOf(c, f, i), {}) :
        c \in {Absent, ContextPrompt}, f \in {Absent, FeedbackPrompt},
        i \in {Absent, InstructionPrompt, InstructionUnused, InstructionUndeclared}}

\* The personas of the main specification
MainPersonas ==
    {PersonaOf(PromptsOf(ContextPrompt, FeedbackPrompt, InstructionPrompt), {"Ethos"}),
     PersonaOf(PromptsOf(Absent, Absent, Absent), {})}

PromptKwargs ==
    {Opt("context", c) @@ Opt("feedback", f) @@ Opt("task", t) @@ Opt("objective", o)
        @@ Opt("instruction", i) :
        c \in {Absent, None, Str("C")}, f \in {Absent, None, Str("F")},
        t \in {Absent, Str("Write docs")}, o \in {Absent, Str("Build")},
        i \in {Absent, Str("I")}}

DataKwargs ==
    {Opt("task", t) @@ Opt("this_task_order", o) @@ Opt("next_task_order", n)
        @@ Opt("task_result", r) @@ Opt("context", c) :
        t \in {Absent, Str("Write docs")},
        o \in {Absent, None, Num(0), Num(-1), Num(9), Str("7"), Str("x")},
        n \in {Absent, Num(5)},
        r \in {Absent, Dict("result" :> Str("R")), Str("bad")},
        c \in {Absent, Dict("result" :> Str("C"))}}

RunKwargs ==
    {Opt("task", t) @@ Opt("context", c) @@ Opt("feedback", f) :
        t \in {Absent, Str("Write docs")},
        c \in {Absent, Dict("result" :> Str("C"))},
        f \in {Absent, Str("F")}}

\* The keyword arguments of the direct generate_prompt calls of the pipeline
DirectKwargs ==
    {k \in PromptKwargs : {"objective", "task"} \subseteq DOMAIN k /\ "instruction" \notin DOMAIN k}

\* What generate_text may return
Texts == { <<" ", "4", "2", "\n">>, <<"o", " ", "k">> }

\* The task lists a parsed output carries; the orders of one list differ, as they
\* become the ids of the records
TaskLists ==
    { << [Description |-> "A", Order |-> 1], [Description |-> "B", Order |-> 2] >>,
      << [Description |-> "B", Order |-> 10], [Description |-> "A", Order |-> 1] >> }

ParsedData ==
    {Maybe("result", r) @@ Maybe("Tasks", t) @@ Maybe("status", s) @@ Maybe("task", k) :
        r \in {{}, {"x"}}, t \in {{}} \cup {{l} : l \in TaskLists}, s \in {{}, {"completed"}},
        k \in {{}, {[task_id |-> "1", description |-> "A", order |-> 1]}}}

\* The "Tasks" collection an earlier session left
StoredTasks ==
    << [id |-> "1", doc |-> "Old one",
        meta |-> [Status |-> "not completed", Description |-> "Old one", List_ID |-> uuid4(-1), Order |-> 1]],
       [id |-> "2", doc |-> "Old two",
        meta |-> [Status |-> "not completed", Description |-> "Old two", List_ID |-> uuid4(-2), Order |-> 2]] >>

----------------------------------------------------------------------------
(* The state machine *)

\* Agent.__init__ over the personas P, with either an empty or a filled "Tasks"
InitOver(P) ==
    /\ persona \in P
    /\ agent_data = load_agent_data(persona, AgentName)
    /\ storage \in {[Tasks |-> t, Results |-> <<>>] : t \in {<<>>, StoredTasks}}
    /\ uuid_count = 0
    /\ op = ""
    /\ args = EmptyDict
    /\ err = ""
    /\ ret = None
    /\ log = <<>>
    /\ stages = <<>>
    /\ dropped = {}
    /\ before = storage

World == [storage |-> storage, uuid_count |-> uuid_count, log |-> <<>>]

Run(kwargs, failAt, text) ==
    /\ Len(storage["Results"]) < MaxResults
    /\ \E r \in {run(agent_data, World, failAt, kwargs, text)} :
           /\ op' = "run"
           /\ args' = kwargs
           /\ err' = r.err
           /\ ret' = r.val
           /\ log' = r.m.log
           /\ stages' = r.stages
           /\ storage' = r.m.storage
           /\ uuid_count' = r.m.uuid_count
           /\ agent_data' = r.agent_data
           /\ dropped' = dropped \cup r.dropped
    /\ before' = storage
    /\ UNCHANGED persona

LoadAndProcessData(kwargs, failAt) ==
    /\ \E r \in {load_and_process_data(agent_data, World, failAt, kwargs)} :
           /\ op' = "load_and_process_data"
           /\ args' = kwargs
           /\ err' = r.err
           /\ ret' = r.val
           /\ log' = r.m.log
           /\ storage' = r.m.storage
           /\ uuid_count' = r.m.uuid_count
    /\ stages' = <<>>
    /\ before' = storage
    /\ UNCHANGED <<persona, agent_data, dropped>>

GeneratePrompt(kwargs) ==
    /\ \E r \in {generate_prompt(agent_data, kwargs)} :
           /\ op' = "generate_prompt"
           /\ args' = kwargs
           /\ err' = r.err
           /\ ret' = r.val
           /\ agent_data' = r.agent_data
           /\ dropped' = dropped \cup r.dropped
    /\ log' = <<>>
    /\ stages' = <<>>
    /\ before' = storage
    /\ UNCHANGED <<persona, storage, uuid_count>>

SaveParsedData(parsed_data, failAt) ==
    /\ "result" \in DOMAIN parsed_data => Len(storage["Results"]) < MaxResults
    /\ "Tasks" \in DOMAIN parsed_data => uuid_count + Len(parsed_data["Tasks"]) <= MaxUuid
    /\ \E r \in {save_parsed_data(World, failAt, parsed_data)} :
           /\ op' = "save_parsed_data"
           /\ args' = parsed_data
           /\ err' = r.err
           /\ ret' = r.val
           /\ log' = r.m.log
           /\ storage' = r.m.storage
           /\ uuid_count' = r.m.uuid_count
    /\ stages' = <<>>
    /\ before' = storage
    /\ UNCHANGED <<persona, agent_data, dropped>>

\* The collaborator calls a handler makes at most: failAt beyond them changes nothing
RunCalls(kwargs) == (IF "task" \in DOMAIN kwargs THEN 0 ELSE 1) + 2
LoadCalls(kwargs) == IF "task" \in DOMAIN kwargs THEN 0 ELSE 1
SaveCalls(parsed_data) ==
    (IF "result" \in DOMAIN parsed_data THEN 1 ELSE 0)
        + (IF "Tasks" \in DOMAIN parsed_data THEN 2 ELSE 0)
        + (IF "status" \in DOMAIN parsed_data THEN 1 ELSE 0)

\* The pipeline: run and the two stages that read the agent's data
Init == InitOver(MainPersonas)

Next ==
    \/ \E kwargs \in RunKwargs, text \in Texts :
          \E failAt \in 0..RunCalls(kwargs) : Run(kwargs, failAt, text)
    \/ \E kwargs \in RunKwargs :
          \E failAt \in 0..LoadCalls(kwargs) : LoadAndProcessData(kwargs, failAt)
    \/ \E kwargs \in DirectKwargs : GeneratePrompt(kwargs)

Spec == Init /\ [][Next]_vars

\* Persistence: save_parsed_data, and runs that load their task from "Tasks"
InitSave == InitOver({PersonaOf(PromptsOf(Absent, Absent, Absent), {})})

NextSave ==
    \/ \E parsed_data \in ParsedData :
          \E failAt \in 0..SaveCalls(parsed_data) : SaveParsedData(parsed_data, failAt)
    \/ \E failAt \in 0..RunCalls(EmptyDict) : Run(EmptyDict, failAt, <<" ", "x", " ">>)

SpecSave == InitSave /\ [][NextSave]_vars

\* Prompt assembly alone, over every persona
InitPrompt == InitOver(AllPersonas)
NextPrompt == \E kwargs \in PromptKwargs : GeneratePrompt(kwargs)
SpecPrompt == InitPrompt /\ [][NextPrompt]_vars

\* Data loading alone
InitData == InitOver({PersonaOf(PromptsOf(ContextPrompt, Absent, InstructionPrompt), {})})
NextData ==
    \E kwargs \in DataKwargs :
        \E failAt \in 0..LoadCalls(kwargs) : LoadAndProcessData(kwargs, failAt)
SpecData == InitData /\ [][NextData]_vars

----------------------------------------------------------------------------
(* Prompt assembly: what generate_prompt is expected to return *)

\* The prompts the persona defined at construction
PersonaPrompts == persona[AgentName].Prompts

Defines(X) == X \in DOMAIN PersonaPrompts

\* The keyword argument that goes with an optional prompt type
KwargOf(X) ==
    CASE X = "ContextPrompt" -> "context"
      [] X = "FeedbackPrompt" -> "feedback"
      [] X = "InstructionPrompt" -> "instruction"

NonNull(kwargs, k) == k \in DOMAIN kwargs /\ kwargs[k] # None

\* The text of prompt type X rendered over kwargs
Rendered(X, kwargs) ==
    render_template(PersonaPrompts[X].template, PersonaPrompts[X].vars, kwargs).val

\* Prompt type X is part of the list of prompts out, rendered over kwargs
Appears(X, out, kwargs) ==
    /\ Defines(X)
    /\ \E i \in DOMAIN out : out[i] = Rendered(X, kwargs)

IfKept(keep, X, kwargs) == IF keep THEN <<Rendered(X, kwargs)>> ELSE <<>>

GeneratePromptReturned == op = "generate_prompt" /\ err = ""

\* C5: generate_prompt returns the rendered SystemPrompt first, then the surviving
\* optional prompts in the order ContextPrompt, FeedbackPrompt, InstructionPrompt;
\* a defined ContextPrompt (FeedbackPrompt) is left out whenever the context
\* (feedback) argument is absent or None.
C5_PromptOrder ==
    GeneratePromptReturned =>
        /\ ret.l = <<Rendered("SystemPrompt", args)>>
                     \o IfKept(Appears("ContextPrompt", ret.l, args), "ContextPrompt", args)
                     \o IfKept(Appears("FeedbackPrompt", ret.l, args), "FeedbackPrompt", args)
                     \o IfKept(Appears("InstructionPrompt", ret.l, args), "InstructionPrompt", args)
        /\ ~NonNull(args, "context") => ~Appears("ContextPrompt", ret.l, args)
        /\ ~NonNull(args, "feedback") => ~Appears("FeedbackPrompt", ret.l, args)

\* C5 witness: a persona that defines all three optional prompts, a call with
\* context None and a feedback: the ContextPrompt is left out, the rest is in order
C5_Witness ==
    /\ GeneratePromptReturned
    /\ Defines("ContextPrompt") /\ Defines("FeedbackPrompt") /\ Defines("InstructionPrompt")
    /\ "context" \in DOMAIN args /\ args["context"] = None
    /\ NonNull(args, "feedback")
    /\ ret.l = <<"SYS Build", "FB F", "INS Write docs">>

\* C6 as stated: each of the three optional prompts appears only if the persona
\* defines it and its keyword argument is non-null
C6_Original ==
    GeneratePromptReturned =>
        \A X \in {"ContextPrompt", "FeedbackPrompt", "InstructionPrompt"} :
            Appears(X, ret.l, args) => Defines(X) /\ NonNull(args, KwargOf(X))

\* C6 as amended: ContextPrompt and FeedbackPrompt appear only if the persona defines
\* them and their keyword argument is non-null; InstructionPrompt appears whenever
\* the persona defines it, whatever the keyword arguments
C6_OptionalPrompts ==
    GeneratePromptReturned =>
        /\ \A X \in {"ContextPrompt", "FeedbackPrompt"} :
              Appears(X, ret.l, args) => Defines(X) /\ NonNull(args, KwargOf(X))
        /\ Defines("InstructionPrompt") => Appears("InstructionPrompt", ret.l, args)

\* C6 witness: an InstructionPrompt rendered with no instruction argument at all,
\* next to a ContextPrompt rendered for a non-null context
C6_Witness ==
    /\ GeneratePromptReturned
    /\ "instruction" \notin DOMAIN args
    /\ Appears("InstructionPrompt", ret.l, args)
    /\ Appears("ContextPrompt", ret.l, args)

\* The prompt types generate_prompt renders for kwargs
Surviving(kwargs) ==
    {"SystemPrompt"}
        \cup {X \in {"ContextPrompt", "FeedbackPrompt"} : Defines(X) /\ NonNull(kwargs, KwargOf(X))}
        \cup {X \in {"InstructionPrompt"} : Defines(X)}

Declared(X) == Range(PersonaPrompts[X].vars)
Referenced(X) == Fields(PersonaPrompts[X].template)

\* C7 as stated: rendering fails with a missing-key error whenever a declared variable
\* of a surviving prompt is absent from the RunContext, and otherwise succeeds (taken
\* over the personas whose templates refer to declared variables only)
C7_Original ==
    (op = "generate_prompt" /\ \A X \in DOMAIN PersonaPrompts : Referenced(X) \subseteq Declared(X)) =>
        LET missing == \E X \in Surviving(args) : \E v \in Declared(X) : v \notin DOMAIN args
        IN  /\ missing => err = "KeyError"
            /\ ~missing => err = ""

\* C7 as amended: rendering fails with a missing-key error exactly when a variable the
\* template refers to is absent from the RunContext or is not declared in vars; a
\* declared variable the template does not refer to need not be present.  Otherwise
\* every field of the template is replaced by its RunContext value.
C7_Rendering ==
    op = "generate_prompt" =>
        LET missing == \E X \in Surviving(args) : \E v \in Referenced(X) :
                            v \notin DOMAIN args \/ v \notin Declared(X)
        IN  /\ missing <=> err = "KeyError"
            /\ ~missing <=> err = ""
            /\ err = "" =>
                  /\ \A X \in Surviving(args) :
                        Format(PersonaPrompts[X].template, args).val \in Range(ret.l)
                  /\ (PersonaPrompts["SystemPrompt"] = SystemPrompt
                         /\ args["objective"] = Str("Build")) => ret.l[1] = "SYS Build"
                  /\ (Defines("InstructionPrompt")
                         /\ PersonaPrompts["InstructionPrompt"] = InstructionPrompt
                         /\ args["task"] = Str("Write docs"))
                        => "INS Write docs" \in Range(ret.l)

\* C7 witness: a prompt that declares a variable the RunContext lacks is rendered,
\* its template not referring to it
C7_Witness ==
    /\ GeneratePromptReturned
    /\ Defines("InstructionPrompt")
    /\ "notes" \in Declared("InstructionPrompt")
    /\ "notes" \notin DOMAIN args
    /\ "INS" \in Range(ret.l)

----------------------------------------------------------------------------
(* Task order *)

LoadReturned == op = "load_and_process_data" /\ err = ""

\* C9: in the RunContext load_and_process_data returns, next_task_order is N + 1
\* whenever this_task_order is an integer N, whatever next_task_order the caller
\* gave; when this_task_order is absent or None, next_task_order is as the caller
\* gave it (absent when the caller gave none).
C9_NextTaskOrder ==
    LoadReturned =>
        LET data == ret.m
            this == Get(data, "this_task_order")
        IN  /\ this = Get(args, "this_task_order")
            /\ this.t = "int" =>
                  /\ "next_task_order" \in DOMAIN data
                  /\ data["next_task_order"] = Num(this.i + 1)
            /\ this = None =>
                  /\ "next_task_order" \in DOMAIN data <=> "next_task_order" \in DOMAIN args
                  /\ "next_task_order" \in DOMAIN args =>
                        data["next_task_order"] = args["next_task_order"]

\* C9 witness: the caller gave this_task_order 9 and next_task_order 5, and the
\* RunContext has next_task_order 10
C9_Witness ==
    /\ LoadReturned
    /\ Get(args, "this_task_order") = Num(9)
    /\ Get(args, "next_task_order") = Num(5)
    /\ ret.m["next_task_order"] = Num(10)

----------------------------------------------------------------------------
(* The pipeline *)

Pipeline == <<"load_and_process_data", "generate_prompt", "run_llm", "parse_output",
              "save_parsed_data">>

IsPrefix(a, b) == Len(a) <= Len(b) /\ SubSeq(b, 1, Len(a)) = a

\* The stage of run that makes a collaborator call
StageOf(fn) ==
    CASE fn = "load_collection" -> 1
      [] fn = "generate_text" -> 3
      [] OTHER -> 5

Writes == {"save_memory", "update_memory", "clear_collection"}

Calls(fns) == {i \in DOMAIN log : log[i].fn \in fns}

\* C1: run starts its stages in the fixed order and a failure ends it before any later
\* stage starts; with no task given and "Tasks" empty, or its load raising, run fails
\* with generate_text never called and no save_memory, update_memory or
\* clear_collection call made.
C1_RunOrder ==
    op = "run" =>
        /\ IsPrefix(stages, Pipeline)
        /\ err = "" => stages = Pipeline
        /\ \A i, j \in DOMAIN log : i < j => StageOf(log[i].fn) <= StageOf(log[j].fn)
        /\ \A i \in DOMAIN log : log[i].raised => (i = Len(log) /\ err # "")
        /\ err # "" => \A i \in DOMAIN log : StageOf(log[i].fn) <= Len(stages)
        /\ ("task" \notin DOMAIN args
              /\ (before["Tasks"] = <<>> \/ (log # <<>> /\ log[1].raised)))
            => /\ err # ""
               /\ Calls({"generate_text"} \cup Writes) = {}
               /\ storage = before

\* C1 witness: a run with no task on an empty "Tasks" ended in the IndexError of the
\* load, its only collaborator call
C1_Witness ==
    /\ op = "run"
    /\ "task" \notin DOMAIN args
    /\ before["Tasks"] = <<>>
    /\ err = "IndexError"
    /\ [i \in DOMAIN log |-> log[i].fn] = <<"load_collection">>
    /\ stages = <<"load_and_process_data">>

\* s is the text cs (given character by character) without its leading and trailing
\* whitespace
StrippedOf(cs, s) ==
    \E i \in 1..(Len(cs) + 1), j \in 0..Len(cs) :
        /\ i <= j + 1
        /\ \A k \in 1..(i - 1) : IsSpace(cs[k])
        /\ \A k \in (j + 1)..Len(cs) : IsSpace(cs[k])
        /\ i <= j => ~IsSpace(cs[i]) /\ ~IsSpace(cs[j])
        /\ s = Join(SubSeq(cs, i, j))

\* C10: a successful run of the base Agent makes one storage write, the save_memory
\* that adds the stripped LLM text as a new entry of "Results"; "Tasks" is as before
\* and the run returns {"result": text}.  Nothing else of the pipeline writes, so k
\* successful runs grow "Results" by k entries.
C10_OneWrite ==
    /\ (op = "run" /\ err = "") =>
          LET text == ret.m["result"]
          IN  /\ ret = Dict("result" :> text)
              /\ \E i \in Calls({"generate_text"}) : StrippedOf(log[i].returned, text)
              /\ Cardinality(Calls(Writes)) = 1
              /\ \A i \in Calls(Writes) :
                    /\ log[i].fn = "save_memory"
                    /\ log[i].params = [data |-> <<text>>, collection_name |-> "Results"]
              /\ storage["Results"] = Append(before["Results"], [doc |-> text])
              /\ storage["Tasks"] = before["Tasks"]
    /\ (op # "run" \/ err # "") => storage = before

\* C10 witness: the second successful run, on a filled "Tasks", returned
\* {"result": "42"} for the LLM text " 42\n"
C10_Witness ==
    /\ op = "run" /\ err = ""
    /\ ret = Dict("result" :> "42")
    /\ Len(before["Results"]) = 1
    /\ Len(storage["Results"]) = 2
    /\ before["Tasks"] # <<>>

\* The keys load_and_process_data derives
DerivedKeys == {"task", "result", "context", "next_task_order"}

\* C8: no call changes agent_data, its prompts included: a ContextPrompt or
\* FeedbackPrompt dropped by one call is rendered by a later call that gives the
\* argument, and a RunContext holds only construction-time agent data, the keyword
\* arguments of its own call and the derived keys.
C8_AgentDataUnchanged ==
    LET built == load_agent_data(persona, AgentName)
    IN  /\ agent_data = built
        /\ GeneratePromptReturned =>
              \A X \in {"ContextPrompt", "FeedbackPrompt"} :
                  (Defines(X) /\ NonNull(args, KwargOf(X))) => Appears(X, ret.l, args)
        /\ (op = "run" /\ Calls({"generate_text"}) # {}) =>
              \A i \in Calls({"generate_text"}) :
                  /\ (Defines("ContextPrompt") /\ "context" \in DOMAIN args)
                        => "CTX C" \in Range(log[i].params.prompt.l)
                  /\ (Defines("FeedbackPrompt") /\ "feedback" \in DOMAIN args)
                        => "FB F" \in Range(log[i].params.prompt.l)
        /\ LoadReturned =>
              /\ DOMAIN ret.m \subseteq DOMAIN built \cup DOMAIN args \cup DerivedKeys
              /\ \A k \in DOMAIN ret.m \ DerivedKeys :
                    ret.m[k] = IF k \in DOMAIN args THEN args[k] ELSE built[k]

\* C8 witness: a ContextPrompt dropped by an earlier call is rendered by this one
C8_Witness ==
    /\ GeneratePromptReturned
    /\ "ContextPrompt" \in dropped
    /\ Appears("ContextPrompt", ret.l, args)

----------------------------------------------------------------------------
(* Persistence *)

\* The collaborator calls made, as <<function, collection>>
LogCalls == [i \in DOMAIN log |-> <<log[i].fn, log[i].params.collection_name>>]

\* The storage calls of the persistence routine of each key
RoutineCalls(key) ==
    CASE key = "result" -> << <<"save_memory", "Results">> >>
      [] key = "Tasks" -> << <<"clear_collection", "Tasks">>, <<"save_memory", "Tasks">> >>
      [] key = "status" -> << <<"update_memory", "Tasks">> >>

IfPresent(parsed_data, key) ==
    IF key \in DOMAIN parsed_data THEN RoutineCalls(key) ELSE <<>>

ExpectedCalls(parsed_data) ==
    IfPresent(parsed_data, "result") \o IfPresent(parsed_data, "Tasks")
        \o IfPresent(parsed_data, "status")

ExpectedOutput(parsed_data) ==
    IF "status" \in DOMAIN parsed_data THEN Dict(parsed_data)
    ELSE IF "Tasks" \in DOMAIN parsed_data THEN List(parsed_data["Tasks"])
    ELSE IF "result" \in DOMAIN parsed_data THEN Dict(parsed_data)
    ELSE None

\* C2: save_parsed_data invokes the persistence routines of the keys present, in the
\* order "result", "Tasks", "status", and returns the selector value of the last key
\* present: parsed_data for "result" and "status", parsed_data["Tasks"] for "Tasks".
C2_SaveOrder ==
    op = "save_parsed_data" =>
        /\ IsPrefix(LogCalls, ExpectedCalls(args))
        /\ err = "" =>
              /\ LogCalls = ExpectedCalls(args)
              /\ ret = ExpectedOutput(args)

\* C2 witness: parsed data with "result" and "Tasks": both routines ran, result first,
\* and the Tasks list was returned
C2_Witness ==
    /\ op = "save_parsed_data" /\ err = ""
    /\ DOMAIN args = {"result", "Tasks"}
    /\ LogCalls = << <<"save_memory", "Results">>, <<"clear_collection", "Tasks">>,
                     <<"save_memory", "Tasks">> >>
    /\ ret = List(args["Tasks"])

\* The save_memory calls on "Tasks" of the last method
TaskSaves(raised) ==
    {i \in DOMAIN log : /\ log[i].fn = "save_memory"
                        /\ log[i].params.collection_name = "Tasks"
                        /\ log[i].raised = raised}

\* The decimal text of the task orders of the model
OrderText == (1 :> "1") @@ (2 :> "2") @@ (10 :> "10")

\* C3: save_tasks clears "Tasks" and then saves: after a successful save_tasks the
\* collection holds, whatever it held before, one record per task, with the text of
\* the task's Order as id, in input order, the description as data, the Status
\* "not completed" and pairwise distinct List_ID values.
C3_SaveTasksReplaces ==
    (op = "save_parsed_data" /\ "Tasks" \in DOMAIN args) =>
        \A i \in TaskSaves(FALSE) :
            LET tasks == args["Tasks"]
                params == log[i].params
            IN  /\ i > 1
                /\ LogCalls[i - 1] = <<"clear_collection", "Tasks">>
                /\ ~log[i - 1].raised
                /\ params.ids = [k \in DOMAIN tasks |-> OrderText[tasks[k].Order]]
                /\ params.data = [k \in DOMAIN tasks |-> tasks[k].Description]
                /\ DOMAIN params.metadata = DOMAIN tasks
                /\ \A k \in DOMAIN tasks :
                      /\ params.metadata[k].Status = "not completed"
                      /\ params.metadata[k].Description = tasks[k].Description
                      /\ params.metadata[k].Order = tasks[k].Order
                /\ \A k, l \in DOMAIN tasks :
                      k # l => params.metadata[k].List_ID # params.metadata[l].List_ID
                /\ (\A j \in DOMAIN log : log[j].fn = "update_memory" => log[j].raised) =>
                      storage["Tasks"] =
                          [k \in DOMAIN tasks |->
                              [id |-> OrderText[tasks[k].Order],
                               doc |-> tasks[k].Description,
                               meta |-> params.metadata[k]]]

\* C3 witness: a "Tasks" collection that held the two stored tasks holds, after
\* save_tasks of the tasks of order 10 and 1, the records "10" and "1"
C3_Witness ==
    /\ op = "save_parsed_data" /\ err = ""
    /\ DOMAIN args = {"Tasks"}
    /\ before["Tasks"] = StoredTasks
    /\ [k \in DOMAIN storage["Tasks"] |-> storage["Tasks"][k].id] = <<"10", "1">>

\* C4: when clear_collection returned and the save_memory after it raised, save_tasks
\* raises that error at once, with no further call, and "Tasks" is left empty; a run
\* that is given no task then fails on the empty collection.
C4_NotAtomic ==
    /\ op = "save_parsed_data" =>
          \A i \in TaskSaves(TRUE) :
              /\ err = "CollaboratorError"
              /\ i = Len(log)
              /\ TaskSaves(FALSE) = {}
              /\ i > 1 /\ LogCalls[i - 1] = <<"clear_collection", "Tasks">> /\ ~log[i - 1].raised
              /\ storage["Tasks"] = <<>>
    /\ (op = "run" /\ "task" \notin DOMAIN args /\ before["Tasks"] = <<>>) =>
          /\ err \in {"IndexError", "CollaboratorError"}
          /\ storage = before

\* C4 witness: the save_memory of save_tasks raised after the clear, and the "Tasks"
\* collection, which held records, is empty
C4_Witness ==
    /\ op = "save_parsed_data"
    /\ TaskSaves(TRUE) # {}
    /\ err = "CollaboratorError"
    /\ before["Tasks"] # <<>>
    /\ storage["Tasks"] = <<>>

====
